---- MODULE Spec2Model ----
(***************************************************************************)
(* Model of src/app.py: a Flask ledger over one SQLite table `records`.    *)
(*                                                                         *)
(* Texts (form fields, TEXT columns) are sequences of one-character        *)
(* strings, so that str.strip(), float() and SQLite's bytewise TEXT        *)
(* comparison are computed rather than assumed.  Numbers are integers:     *)
(* every amount the forms below carry is an integer literal, which a      *)
(* Python float and a SQLite REAL hold and add exactly.                    *)
(*                                                                         *)
(* The werkzeug development server (app.run, src/app.py:268) serves each   *)
(* request on its own thread.  The model follows one statistics request    *)
(* statement by statement (pc) while add_record requests of other threads  *)
(* commit their INSERT at any point in between.                            *)
(***************************************************************************)
EXTENDS Integers, Sequences, FiniteSets, TLC

\* Largest number of rows the table holds in the model.
MaxRows == 2

\* src/app.py:10
DEFAULT_BUDGET == 30000

None == "None"      \* Python None where a text is expected (an absent form field)
Unset == "unset"    \* a local of index()/get_stats() not assigned yet

\* A number that may be missing is a sequence of at most one number: <<>> is
\* Python's None and SQL's NULL, <<n>> is the number n.
NoFloat == <<>>
NULL == <<>>
Float(n) == <<n>>

----------------------------------------------------------------------------
(* Text helpers *)

Range(s) == {s[i] : i \in 1..Len(s)}

Digits == <<"0", "1", "2", "3", "4", "5", "6", "7", "8", "9">>

\* Value of a decimal digit character.
DigitVal(c) == (CHOOSE i \in 1..10 : Digits[i] = c) - 1

IsDigit(c) == c \in Range(Digits)

\* Byte value of a character (ASCII), for the characters the forms use.
CharCode(c) ==
    CASE c = " " -> 32
      [] c = "-" -> 45
      [] IsDigit(c) -> 48 + DigitVal(c)
      [] c = "a" -> 97
      [] c = "b" -> 98
      [] c = "c" -> 99
      [] c = "d" -> 100
      [] c = "e" -> 101
      [] c = "f" -> 102
      [] c = "n" -> 110
      [] c = "o" -> 111
      [] c = "r" -> 114
      [] c = "t" -> 116
      [] c = "x" -> 120

RECURSIVE LStrip(_)
LStrip(s) == IF s # <<>> /\ Head(s) = " " THEN LStrip(Tail(s)) ELSE s

RECURSIVE RStrip(_)
RStrip(s) ==
    IF s # <<>> /\ s[Len(s)] = " " THEN RStrip(SubSeq(s, 1, Len(s) - 1)) ELSE s

\* str.strip()
Strip(s) == RStrip(LStrip(s))

\* SQLite BINARY collation on TEXT: memcmp, the shorter text first on a tie.
RECURSIVE TextLess(_, _)
TextLess(a, b) ==
    IF b = <<>> THEN FALSE
    ELSE IF a = <<>> THEN TRUE
    ELSE IF Head(a) = Head(b) THEN TextLess(Tail(a), Tail(b))
    ELSE CharCode(Head(a)) < CharCode(Head(b))

TextLeq(a, b) == a = b \/ TextLess(a, b)

RECURSIVE DigitsValue(_)
DigitsValue(s) ==
    IF s = <<>> THEN 0
    ELSE 10 * DigitsValue(SubSeq(s, 1, Len(s) - 1)) + DigitVal(s[Len(s)])

AllDigits(s) == s # <<>> /\ \A i \in 1..Len(s) : IsDigit(s[i])

\* float(text) on the texts of the model: surrounding blanks are ignored, an
\* optionally signed run of digits is its value, anything else (the empty
\* text included) raises ValueError.
ParseFloat(text) ==
    LET s == Strip(text) IN
    IF AllDigits(s) THEN [ok |-> TRUE, val |-> DigitsValue(s)]
    ELSE IF s # <<>> /\ Head(s) = "-" /\ AllDigits(Tail(s))
         THEN [ok |-> TRUE, val |-> 0 - DigitsValue(Tail(s))]
    ELSE [ok |-> FALSE, val |-> 0]

----------------------------------------------------------------------------
(* The texts the requests of the model carry *)

Empty == <<>>
Blank == <<" ">>
Food == <<"f", "o", "o", "d">>
Rent == <<"r", "e", "n", "t">>
PaddedRent == <<" ", "r", "e", "n", "t", " ">>
Abc == <<"a", "b", "c">>

\* The ISO text of a day of January 2024, from its two day digits.
Jan(d1, d2) == <<"2", "0", "2", "4", "-", "0", "1", "-", d1, d2>>

\* date.today() of the run: the local date of the system clock.
Today == Jan("1", "5")

\* Days of each month of 2024, as the two digits isoformat() prints.
LastDayOf(month) ==
    CASE month \in {<<"0", "4">>, <<"0", "6">>, <<"0", "9">>, <<"1", "1">>} -> <<"3", "0">>
      [] month = <<"0", "2">> -> <<"2", "9">>
      [] OTHER -> <<"3", "1">>

\* get_current_month_range(), each day as isoformat() prints it.
get_current_month_range ==
    LET first_day == SubSeq(Today, 1, 8) \o <<"0", "1">>
        last_day == SubSeq(Today, 1, 8) \o LastDayOf(SubSeq(Today, 6, 7))
    IN  <<first_day, last_day>>

\* add_record forms: request.form of a POST with action = add_record.
AddForm(amount, type, category, date, note) ==
    [amount |-> amount, type |-> type, category |-> category,
     date |-> date, note |-> note]

AddForms ==
    { AddForm(<<"1", "0">>, "expense", Food, Jan("0", "1"), Empty),
      AddForm(<<" ", "5", "0">>, "expense", PaddedRent, Jan("0", "3"), <<" ", "n">>),
      AddForm(<<"5", "0", "0">>, "income", Food, Empty, Empty),
      \* rejected ones
      AddForm(Abc, "expense", Food, Jan("0", "1"), Empty),
      AddForm(<<"1", "0">>, "transfer", Food, Jan("0", "1"), Empty),
      AddForm(<<"5", "0">>, "expense", Blank, Jan("0", "3"), Empty),
      AddForm(<<"1", "x">>, "transfer", Empty, Empty, Empty) }

\* Requests that reach get_stats: a GET, or a POST whose action is not
\* add_record.  A GET carries no form: its fields read as absent.
StatsForm(method, action, start_date, end_date, category_filter, min_amount, max_amount, budget) ==
    [method |-> method, action |-> action,
     start_date |-> start_date, end_date |-> end_date,
     category_filter |-> category_filter,
     min_amount |-> min_amount, max_amount |-> max_amount, budget |-> budget]

FilterForm(start_date, end_date, category_filter, min_amount, max_amount, budget) ==
    StatsForm("POST", "filter", start_date, end_date, category_filter,
              min_amount, max_amount, budget)

StatsForms ==
    { StatsForm("GET", None, Empty, Empty, Empty, Empty, Empty, Empty),
      StatsForm("POST", "export", Jan("0", "3"), Jan("0", "3"), Rent,
                <<"5", "0">>, <<"5", "0">>, <<"2", "0">>),
      FilterForm(Jan("0", "3"), Jan("0", "3"), PaddedRent, Empty, Empty, <<"2", "0">>),
      FilterForm(Empty, Jan("0", "3"), Empty, Abc, Empty, Abc),
      FilterForm(Empty, Empty, Food, Abc, <<"1", "0">>, <<"3", "0", "0">>),
      FilterForm(Jan("0", "3"), Empty, Blank, <<"5", "0">>, <<"1", "x">>, Blank),
      FilterForm(Empty, Empty, Empty, <<"5", "0">>, <<"1", "0">>, <<"-", "5">>) }

----------------------------------------------------------------------------
(* SQL over the records table *)

Row(id, amount, type, category, date, note) ==
    [id |-> id, amount |-> amount, type |-> type, category |-> category,
     date |-> date, note |-> note]

\* The filter get_stats is called with (src/app.py:234-240).
Params(start_date, end_date, category, min_amount, max_amount) ==
    [start_date |-> start_date, end_date |-> end_date, category |-> category,
     min_amount |-> min_amount, max_amount |-> max_amount]

\* x BETWEEN lo AND hi on TEXT.
TextBetween(x, lo, hi) == TextLeq(lo, x) /\ TextLeq(x, hi)

\* Faulty variant: where_clause without the max_amount condition.
WhereClauseNoMax(r, p) ==
    /\ TextBetween(r.date, p.start_date, p.end_date)
    /\ (p.category # Empty /\ Strip(p.category) # Empty) => r.category = Strip(p.category)
    /\ p.min_amount # NoFloat => r.amount >= p.min_amount[1]

\* The conjunction get_stats joins into where_clause, on row r.
WhereClause(r, p) ==
    /\ TextBetween(r.date, p.start_date, p.end_date)
    /\ (p.category # Empty /\ Strip(p.category) # Empty) => r.category = Strip(p.category)
    /\ p.min_amount # NoFloat => r.amount >= p.min_amount[1]
    /\ p.max_amount # NoFloat => r.amount <= p.max_amount[1]

RECURSIVE SumAmounts(_)
SumAmounts(rows) ==
    IF rows = {} THEN 0
    ELSE LET r == CHOOSE x \in rows : TRUE IN r.amount + SumAmounts(rows \ {r})

\* SUM(amount): NULL over no rows.
SqlSum(rows) == IF rows = {} THEN NULL ELSE Float(SumAmounts(rows))

\* COALESCE(x, 0)
Coalesce0(x) == IF x = NULL THEN 0 ELSE x[1]

\* Python's `x or 0` on a number
Or0(x) == IF x = 0 THEN 0 ELSE x

\* Faulty variant: the total taken over every row of the type, where_clause left out.
SelectTotalUnfiltered(table, type, p) ==
    Or0(Coalesce0(SqlSum({r \in Range(table) : r.type = type})))

\* SELECT COALESCE(SUM(amount), 0) FROM records WHERE type = ? AND where_clause,
\* then `or 0` and float().
SelectTotal(table, type, p) ==
    Or0(Coalesce0(SqlSum({r \in Range(table) : r.type = type /\ WhereClause(r, p)})))

\* GROUP BY category with SUM(amount) per group, over the matching expenses.
GroupByCategory(table, p) ==
    LET rows == {r \in Range(table) : r.type = "expense" /\ WhereClause(r, p)} IN
    { [category |-> c,
       total |-> Coalesce0(SqlSum({r \in rows : r.category = c}))]
      : c \in {r.category : r \in rows} }

\* Faulty variant: ORDER BY total, ascending.
RECURSIVE OrderByTotalAsc(_)
OrderByTotalAsc(groups) ==
    IF groups = {} THEN {<<>>}
    ELSE UNION { { <<g>> \o rest : rest \in OrderByTotalAsc(groups \ {g}) }
                 : g \in {x \in groups : \A y \in groups : y.total >= x.total} }

\* ORDER BY total DESC: every order of the groups SQLite may return; groups of
\* equal total come in an order SQL leaves open.
RECURSIVE OrderByTotalDesc(_)
OrderByTotalDesc(groups) ==
    IF groups = {} THEN {<<>>}
    ELSE UNION { { <<g>> \o rest : rest \in OrderByTotalDesc(groups \ {g}) }
                 : g \in {x \in groups : \A y \in groups : y.total <= x.total} }

\* Faulty variant: the row ORDER BY date DESC, id puts first.
FirstByDateDescIdAsc(rows) ==
    CHOOSE r \in rows :
        \A s \in rows \ {r} :
            TextLess(s.date, r.date) \/ (s.date = r.date /\ s.id > r.id)

\* The row ORDER BY date DESC, id DESC puts first.
FirstByDateIdDesc(rows) ==
    CHOOSE r \in rows :
        \A s \in rows \ {r} :
            TextLess(s.date, r.date) \/ (s.date = r.date /\ s.id < r.id)

RECURSIVE OrderByDateIdDesc(_)
OrderByDateIdDesc(rows) ==
    IF rows = {} THEN <<>>
    ELSE LET r == FirstByDateIdDesc(rows) IN <<r>> \o OrderByDateIdDesc(rows \ {r})

\* SELECT ... FROM records WHERE where_clause ORDER BY date DESC, id DESC
SelectRecords(table, p) ==
    OrderByDateIdDesc({r \in Range(table) : WhereClause(r, p)})

----------------------------------------------------------------------------
(* State *)

VARIABLES
    records_table,   \* the rows of table records, in insertion order
    sqlite_sequence, \* the largest id AUTOINCREMENT has handed out
    add_response,    \* the answer to the latest add_record request
    pc,              \* where the statistics request under watch stands
    form,            \* its request
    filter,          \* index()'s locals start_date .. max_amount
    budget,          \* index()'s local budget
    flashes,         \* the messages it flashed, in order
    con,             \* the connection get_stats opened
    stats,           \* the values get_stats has read so far
    balance,
    budget_diff,
    interleaved      \* an INSERT committed between two of its reads

vars == <<records_table, sqlite_sequence, add_response, pc, form, filter, budget,
          flashes, con, stats, balance, budget_diff, interleaved>>

Flash(category, message) == <<category, message>>

NoStats ==
    [total_income |-> Unset, total_expense |-> Unset, category_labels |-> Unset,
     category_amounts |-> Unset, records |-> Unset]

\* finance.db right after init_db() created the empty table; no request yet.
Init ==
    /\ records_table = <<>>
    /\ sqlite_sequence = 0
    /\ add_response = [status |-> None, flash |-> <<>>]
    /\ pc = "idle"
    /\ form = StatsForm(None, None, Empty, Empty, Empty, Empty, Empty, Empty)
    /\ filter = Unset
    /\ budget = DEFAULT_BUDGET
    /\ flashes = <<>>
    /\ con = "none"
    /\ stats = NoStats
    /\ balance = Unset
    /\ budget_diff = Unset
    /\ interleaved = FALSE

----------------------------------------------------------------------------
(* index(): the add_record branch, src/app.py:166-200 *)

\* Faulty variant: the checks without the one on the category.
AddVerdictNoCategory(f) ==
    IF ~ParseFloat(Strip(f.amount)).ok THEN "amount"
    ELSE IF f.type \notin {"income", "expense"} THEN "type"
    ELSE "ok"

\* The first check of the branch that fails, or "ok".
AddVerdict(f) ==
    IF ~ParseFloat(Strip(f.amount)).ok THEN "amount"
    ELSE IF f.type \notin {"income", "expense"} THEN "type"
    ELSE IF Strip(f.category) = Empty THEN "category"
    ELSE "ok"

\* The row INSERT INTO records stores for a form that passed the checks.
InsertedRow(f, id) ==
    Row(id,
        ParseFloat(Strip(f.amount)).val,
        f.type,
        Strip(f.category),
        IF f.date # Empty THEN f.date ELSE Today,
        Strip(f.note))

\* Faulty variant: the id of the latest row handed out again.
NextIdReused == IF sqlite_sequence = 0 THEN 1 ELSE sqlite_sequence

\* AUTOINCREMENT: one more than the largest id ever used.
NextId == sqlite_sequence + 1

AddRecordRejected(f) ==
    /\ AddVerdict(f) # "ok"
    /\ add_response' = [status |-> "redirect",
                        flash |-> <<Flash("danger", AddVerdict(f))>>]
    /\ UNCHANGED <<records_table, sqlite_sequence, pc, form, filter, budget, flashes,
                   con, stats, balance, budget_diff, interleaved>>

AddRecordInserted(f) ==
    /\ AddVerdict(f) = "ok"
    /\ Len(records_table) < MaxRows
    /\ records_table' = Append(records_table, InsertedRow(f, NextId))
    /\ sqlite_sequence' = NextId
    /\ add_response' = [status |-> "redirect",
                        flash |-> <<Flash("success", "added")>>]
    /\ interleaved' = (interleaved \/ pc \in {"expense", "categories", "records"})
    /\ UNCHANGED <<pc, form, filter, budget, flashes, con, stats, balance, budget_diff>>

\* The whole branch for one form.
AddRecord(f) == AddRecordRejected(f) \/ AddRecordInserted(f)

----------------------------------------------------------------------------
(* index(): every other request, src/app.py:152-160, 203-263 *)

\* `text or default`
OrDefault(text, default) == IF text # Empty THEN text ELSE default

\* Faulty variant: a bound float() rejects filters as 0.
ParseBoundZero(text) ==
    IF Strip(text) = Empty THEN NoFloat
    ELSE IF ParseFloat(Strip(text)).ok THEN Float(ParseFloat(Strip(text)).val)
    ELSE Float(0)

\* An amount bound of the filter form: None when the field is empty after
\* strip() or float() raises ValueError.
ParseBound(text) ==
    IF Strip(text) # Empty /\ ParseFloat(Strip(text)).ok
    THEN Float(ParseFloat(Strip(text)).val)
    ELSE NoFloat

\* The warning flashed for a field float() rejects.
BoundWarning(text, name) ==
    IF Strip(text) # Empty /\ ~ParseFloat(Strip(text)).ok
    THEN <<Flash("warning", name)>>
    ELSE <<>>

\* Faulty variant: a budget float() rejects keeps no fallback.
ParseBudgetZero(text) ==
    IF Strip(text) # Empty /\ ParseFloat(Strip(text)).ok
    THEN ParseFloat(Strip(text)).val
    ELSE 0

\* The budget of the request: the field's number, DEFAULT_BUDGET when the
\* field is empty after strip() or float() raises ValueError.
ParseBudget(text) ==
    IF Strip(text) # Empty /\ ParseFloat(Strip(text)).ok
    THEN ParseFloat(Strip(text)).val
    ELSE DEFAULT_BUDGET

IsFilter(f) == f.method = "POST" /\ f.action = "filter"

\* The arguments index() passes to get_stats for request f.
FilterOf(f) ==
    IF IsFilter(f)
    THEN Params(OrDefault(f.start_date, get_current_month_range[1]),
                OrDefault(f.end_date, get_current_month_range[2]),
                Strip(f.category_filter),
                ParseBound(f.min_amount),
                ParseBound(f.max_amount))
    ELSE Params(get_current_month_range[1], get_current_month_range[2],
                Empty, NoFloat, NoFloat)

BudgetOf(f) == IF IsFilter(f) THEN ParseBudget(f.budget) ELSE DEFAULT_BUDGET

FlashesOf(f) ==
    IF IsFilter(f)
    THEN BoundWarning(f.min_amount, "min_amount")
         \o BoundWarning(f.max_amount, "max_amount")
         \o BoundWarning(f.budget, "budget")
    ELSE <<>>

Reading == {"income", "expense", "categories", "records"}

\* index() up to get_db_connection() in get_stats.
BeginStats(f) ==
    /\ pc \in {"idle", "done", "failed"}
    /\ form' = f
    /\ filter' = FilterOf(f)
    /\ budget' = BudgetOf(f)
    /\ flashes' = FlashesOf(f)
    /\ con' = "open"
    /\ stats' = NoStats
    /\ balance' = Unset
    /\ budget_diff' = Unset
    /\ interleaved' = FALSE
    /\ pc' = "income"
    /\ UNCHANGED <<records_table, sqlite_sequence, add_response>>

\* The first SELECT, src/app.py:89-97.
ReadIncome ==
    /\ pc = "income"
    /\ stats' = [stats EXCEPT !.total_income = SelectTotal(records_table, "income", filter)]
    /\ pc' = "expense"
    /\ UNCHANGED <<records_table, sqlite_sequence, add_response, form, filter, budget,
                   flashes, con, balance, budget_diff, interleaved>>

\* The second SELECT, src/app.py:100-108.
ReadExpense ==
    /\ pc = "expense"
    /\ stats' = [stats EXCEPT !.total_expense = SelectTotal(records_table, "expense", filter)]
    /\ pc' = "categories"
    /\ UNCHANGED <<records_table, sqlite_sequence, add_response, form, filter, budget,
                   flashes, con, balance, budget_diff, interleaved>>

\* The third SELECT, src/app.py:111-123.
ReadCategories ==
    /\ pc = "categories"
    /\ \E rows \in OrderByTotalDesc(GroupByCategory(records_table, filter)) :
          stats' = [stats EXCEPT
                      !.category_labels = [i \in 1..Len(rows) |-> rows[i].category],
                      !.category_amounts = [i \in 1..Len(rows) |-> rows[i].total]]
    /\ pc' = "records"
    /\ UNCHANGED <<records_table, sqlite_sequence, add_response, form, filter, budget,
                   flashes, con, balance, budget_diff, interleaved>>

\* The fourth SELECT, con.close(), and index() to its render_template,
\* src/app.py:126-145, 242-263.
ReadRecordsAndRender ==
    /\ pc = "records"
    /\ stats' = [stats EXCEPT !.records = SelectRecords(records_table, filter)]
    /\ con' = "closed"
    /\ balance' = stats.total_income - stats.total_expense
    /\ budget_diff' = budget - stats.total_expense
    /\ pc' = "done"
    /\ UNCHANGED <<records_table, sqlite_sequence, add_response, form, filter, budget,
                   flashes, interleaved>>

\* A SELECT raises sqlite3.Error (the file is locked, unreadable, ...): the
\* exception leaves get_stats and index() before con.close() is reached.  The
\* connection stays open for as long as the traceback keeps the frame alive
\* (the debugger of app.run(debug=True) keeps it); once nothing refers to it
\* the interpreter finalises it.
ReadFailsLeaked ==
    /\ pc \in Reading
    /\ pc' = "failed"
    /\ con' = "open"
    /\ UNCHANGED <<records_table, sqlite_sequence, add_response, form, filter, budget,
                   flashes, stats, balance, budget_diff, interleaved>>

ReadFailsFinalised ==
    /\ pc \in Reading
    /\ pc' = "failed"
    /\ con' = "closed"
    /\ UNCHANGED <<records_table, sqlite_sequence, add_response, form, filter, budget,
                   flashes, stats, balance, budget_diff, interleaved>>

Next ==
    \/ \E f \in AddForms : AddRecordRejected(f)
    \/ \E f \in AddForms : AddRecordInserted(f)
    \/ \E f \in StatsForms : BeginStats(f)
    \/ ReadIncome
    \/ ReadExpense
    \/ ReadCategories
    \/ ReadRecordsAndRender
    \/ ReadFailsLeaked
    \/ ReadFailsFinalised

Spec == Init /\ [][Next]_vars

----------------------------------------------------------------------------
(* Vocabulary of the properties *)

RECURSIVE SumSeq(_)
SumSeq(q) == IF q = <<>> THEN 0 ELSE Head(q) + SumSeq(Tail(q))

\* The amounts of the rows of one type in a list of rows, summed.
SumOfType(rows, type) ==
    SumSeq([i \in 1..Len(SelectSeq(rows, LAMBDA r : r.type = type))
              |-> SelectSeq(rows, LAMBDA r : r.type = type)[i].amount])

\* The four values one get_stats call returned agree with each other.
StatsAgree ==
    /\ SumSeq(stats.category_amounts) = stats.total_expense
    /\ SumOfType(stats.records, "expense") = stats.total_expense
    /\ SumOfType(stats.records, "income") = stats.total_income

\* A step of the statistics request (an add_record request never moves pc).
StatsStep == pc' # pc

\* C1: a get_stats call that no INSERT interleaved with returns totals, a
\* category breakdown and a records list that agree: the breakdown sums to
\* total_expense, the expense records sum to total_expense, the income
\* records sum to total_income.
C1_SequentialStatsAgree == (pc = "done" /\ ~interleaved) => StatsAgree

C1_Witness ==
    /\ pc = "done" /\ ~interleaved
    /\ stats.total_expense > 0 /\ stats.total_income > 0
    /\ Len(stats.records) = 2

\* C10: the four values agree in every interleaving, also when an INSERT of
\* another request commits between two of the reads.
C10_StatsAgreeInEveryInterleaving == pc = "done" => StatsAgree

C10_Interleaved == pc = "done" /\ interleaved

\* What the add_record checks are meant to turn away: an amount float()
\* cannot parse, a type other than income and expense, a category that is
\* empty once trimmed.
Rejectable(f) ==
    \/ ~ParseFloat(f.amount).ok
    \/ f.type # "income" /\ f.type # "expense"
    \/ Strip(f.category) = Empty

RejectableForms == {f \in AddForms : Rejectable(f)}

HasDanger(response) ==
    \E i \in 1..Len(response.flash) : response.flash[i][1] = "danger"

\* C2: an add_record request with an unparseable amount, a type that is not
\* income or expense, or a blank category inserts no row (the table after the
\* request is the table before it) and is answered with a danger flash: a
\* step that is the add_record branch on such a form does both.
C2_RejectedWriteChangesNothing ==
    [][\/ /\ records_table' = records_table
          /\ sqlite_sequence' = sqlite_sequence
          /\ HasDanger(add_response')
       \/ \A f \in RejectableForms : ~AddRecord(f)]_vars

C2_Witness ==
    /\ Len(records_table) > 0
    /\ add_response.status = "redirect"
    /\ HasDanger(add_response)

\* C3: the table is append-only.  Every step keeps the rows it found, in
\* place and field by field; a row it adds has an id larger than every id
\* already stored; and only an add_record request that passes the checks adds
\* one: the statistics request never changes the table.
C3_AppendOnly ==
    [][/\ Len(records_table') >= Len(records_table)
       /\ SubSeq(records_table', 1, Len(records_table)) = records_table
       /\ \A i \in (Len(records_table) + 1)..Len(records_table') :
             \A j \in 1..(i - 1) : records_table'[j].id < records_table'[i].id
       /\ StatsStep => records_table' = records_table
       /\ records_table' # records_table =>
             \E f \in AddForms : ~Rejectable(f) /\ AddRecord(f)]_vars

C3_Witness ==
    /\ Len(records_table) = MaxRows
    /\ pc = "done"
    /\ IsFilter(form)
    /\ HasDanger(add_response)

\* The rows of the table the filter of the request selects.
Matching == {r \in Range(records_table) : WhereClause(r, filter)}

\* C4: the records list get_stats returns holds exactly the rows of the table
\* that satisfy the filter, each once, by date descending and, within a
\* date, by id descending.
C4_RecordsExactAndOrdered ==
    [][(pc = "records" /\ pc' = "done") =>
          LET rs == stats'.records IN
          /\ Range(rs) = Matching
          /\ Len(rs) = Cardinality(Matching)
          /\ \A i \in 1..(Len(rs) - 1) :
                \/ TextLess(rs[i + 1].date, rs[i].date)
                \/ rs[i + 1].date = rs[i].date /\ rs[i + 1].id < rs[i].id]_vars

C4_Witness ==
    /\ pc = "done"
    /\ Len(stats.records) = 2
    /\ stats.records[1].date = stats.records[2].date
    /\ stats.records[1].id > stats.records[2].id

\* The expense rows of the table the filter of the request selects.
MatchingExpenses == {r \in Matching : r.type = "expense"}

\* C5: the category breakdown has one entry per category of the matching
\* expense rows, each amount is the sum of the matching expense rows of its
\* category (income rows add nothing), and the amounts never increase down
\* the list.
C5_BreakdownPerCategoryDescending ==
    [][(pc = "categories" /\ pc' = "records") =>
          LET labels == stats'.category_labels
              amounts == stats'.category_amounts
          IN
          /\ Len(labels) = Len(amounts)
          /\ Range(labels) = {r.category : r \in MatchingExpenses}
          /\ Len(labels) = Cardinality({r.category : r \in MatchingExpenses})
          /\ \A i \in 1..Len(labels) :
                amounts[i] =
                    SumAmounts({r \in MatchingExpenses : r.category = labels[i]})
          /\ \A i \in 1..(Len(amounts) - 1) : amounts[i] >= amounts[i + 1]]_vars

C5_Witness ==
    /\ pc = "records"
    /\ Len(stats.category_labels) = 2
    /\ stats.category_amounts[1] > stats.category_amounts[2]

\* A bound text the filter form carries that float() cannot parse.
Malformed(text) == Strip(text) # Empty /\ ~ParseFloat(text).ok

\* The filter request f with its malformed amount bounds left out.
WithoutMalformedBounds(f) ==
    [f EXCEPT !.min_amount = IF Malformed(f.min_amount) THEN Empty ELSE @,
              !.max_amount = IF Malformed(f.max_amount) THEN Empty ELSE @]

HasMalformedBound(f) == Malformed(f.min_amount) \/ Malformed(f.max_amount)

\* C6: a filter request with an unparseable min_amount or max_amount is served
\* like the same request without that bound: get_stats gets the same
\* arguments - the date range, the category and the other bound still
\* applied - and, when no INSERT interleaves, returns the totals, breakdown
\* and records that request returns on the same table.
C6_MalformedBoundIsDropped ==
    [][(StatsStep /\ pc' \in Reading \cup {"done"}
          /\ IsFilter(form') /\ HasMalformedBound(form')) =>
          LET g == WithoutMalformedBounds(form') IN
          /\ filter' = FilterOf(g)
          /\ (pc' = "done" /\ ~interleaved') =>
                /\ stats'.total_income = SelectTotal(records_table', "income", FilterOf(g))
                /\ stats'.total_expense = SelectTotal(records_table', "expense", FilterOf(g))
                /\ stats'.records = SelectRecords(records_table', FilterOf(g))
                /\ \E rows \in OrderByTotalDesc(GroupByCategory(records_table', FilterOf(g))) :
                      /\ stats'.category_labels = [i \in 1..Len(rows) |-> rows[i].category]
                      /\ stats'.category_amounts = [i \in 1..Len(rows) |-> rows[i].total]]_vars

C6_Witness ==
    /\ pc = "done" /\ ~interleaved
    /\ IsFilter(form) /\ HasMalformedBound(form)
    /\ Len(stats.records) > 0
    /\ Len(stats.records) < Len(records_table)

\* The request filters with a lower bound above its upper bound.
EmptyBounds ==
    /\ pc \in Reading \cup {"done"}
    /\ filter.min_amount # NoFloat /\ filter.max_amount # NoFloat
    /\ filter.min_amount[1] > filter.max_amount[1]

\* C7: with min_amount > max_amount get_stats matches no row, whatever the
\* table holds: both totals are the number 0 as soon as they are read, the
\* breakdown and the records list are empty.
C7_EmptyBoundsMatchNothing ==
    EmptyBounds =>
        /\ pc \in {"expense", "categories", "records", "done"} => stats.total_income = 0
        /\ pc \in {"categories", "records", "done"} => stats.total_expense = 0
        /\ pc \in {"records", "done"} =>
              stats.category_labels = <<>> /\ stats.category_amounts = <<>>
        /\ pc = "done" => stats.records = <<>>

C7_Witness ==
    /\ EmptyBounds
    /\ pc = "done"
    /\ Len(records_table) = MaxRows
    /\ \E i \in 1..Len(records_table) :
          TextBetween(records_table[i].date, filter.start_date, filter.end_date)

\* The budget a request asks for: the number in the budget field of the
\* filter form when float() parses it, DEFAULT_BUDGET otherwise (no filter
\* form, an empty field, a text float() rejects).
RequestedBudget(f) ==
    IF IsFilter(f) /\ ParseFloat(f.budget).ok
    THEN ParseFloat(f.budget).val
    ELSE DEFAULT_BUDGET

C9_ConnectionReleased == pc \in {"done", "failed"} => con = "closed"

====
